---- MODULE Spec2Model ----
(***************************************************************************)
(* ash-reporter: the findings dashboard (App, SummaryCards, FindingsTable) *)
(* as a state machine.                                                     *)
(*                                                                         *)
(*   Spec     the two components rendered with a findings prop, for every  *)
(*            findings list of at most MaxLen findings, driven by clicks   *)
(*   SpecApp  the App from construction: the mount effect reads the        *)
(*            embedded block, then the components are driven by clicks     *)
(*   SpecAppFair  SpecApp with the mount effect eventually run             *)
(*   SpecAsm  one run of scripts/generate-report.js                        *)
(*   SpecDetails  FindingsTable with one finding and its optional fields   *)
(***************************************************************************)
EXTENDS Integers, Sequences, FiniteSets, TLC

VARIABLES
  block,            \* the element with id "ash-data" of the document
  mounted,          \* the mount effect of App has run
  loading,          \* App state: loading
  data,             \* App state: data
  consoleErrors,    \* what console.error was called with, in order
  findings,         \* the findings prop of SummaryCards and FindingsTable
  selectedFinding,  \* FindingsTable state
  activeTab,        \* FindingsTable state
  severityFilter,   \* FindingsTable state: an array of severities
  clickParity,      \* history: clicks on each severity control, modulo 2
  env,              \* generate-report.js: argv and the files it reads
  outputs,          \* generate-report.js: the files at the output paths
  proc              \* generate-report.js: the process (position, locals, streams)

vars == <<block, mounted, loading, data, consoleErrors, findings,
          selectedFinding, activeTab, severityFilter, clickParity,
          env, outputs, proc>>

asmVars == <<env, outputs, proc>>

uiVars == <<block, mounted, loading, data, consoleErrors, findings,
            selectedFinding, activeTab, severityFilter, clickParity>>

appVars == <<block, mounted, loading, data, consoleErrors, findings>>

(***************************************************************************)
(* Bounds                                                                  *)
(***************************************************************************)
MaxLen == 2

(***************************************************************************)
(* Values                                                                  *)
(***************************************************************************)
null == [kind |-> "null"]

\* type SeverityLevel, in the key order of severityConfig
SeverityLevel == <<"CRITICAL", "HIGH", "MEDIUM", "LOW">>

\* mutant: HIGH has the priority of MEDIUM
severityConfig_sharedPriority ==
  [CRITICAL |-> [icon |-> "red",    priority |-> 4],
   HIGH     |-> [icon |-> "orange", priority |-> 2],
   MEDIUM   |-> [icon |-> "yellow", priority |-> 2],
   LOW      |-> [icon |-> "green",  priority |-> 1]]

severityConfig ==
  [CRITICAL |-> [icon |-> "red",    priority |-> 4],
   HIGH     |-> [icon |-> "orange", priority |-> 3],
   MEDIUM   |-> [icon |-> "yellow", priority |-> 2],
   LOW      |-> [icon |-> "green",  priority |-> 1]]

\* the findings an input list is drawn from: every SeverityLevel and one
\* severity that is not a SeverityLevel (the type is not enforced on parsed
\* JSON); two tools that differ in case only, and one tool that spells the
\* value of the All Tools tab
Finding ==
  [tool : {"Grype"}, severity : DOMAIN severityConfig \cup {"UNKNOWN"}]
    \cup [tool : {"grype"}, severity : {"CRITICAL"}]
    \cup [tool : {"all"}, severity : {"LOW"}]

RECURSIVE SeqsUpTo(_, _)
SeqsUpTo(S, n) ==
  IF n = 0 THEN {<<>>}
  ELSE LET shorter == SeqsUpTo(S, n - 1)
       IN shorter \cup {Append(q, x) : q \in {r \in shorter : Len(r) = n - 1}, x \in S}

FindingLists == SeqsUpTo(Finding, MaxLen)

Range(q) == {q[i] : i \in 1..Len(q)}

(***************************************************************************)
(* Array helpers                                                           *)
(***************************************************************************)
\* Array.prototype.includes
includes(arr, x) == \E i \in 1..Len(arr) : arr[i] = x

(***************************************************************************)
(* SummaryCards                                                            *)
(***************************************************************************)
\* mutant: the reducer stores 1 instead of adding 1 to the previous count
RECURSIVE reduceCounts_overwrite(_, _)
reduceCounts_overwrite(fs, acc) ==
  IF fs = <<>> THEN acc
  ELSE LET sev == Head(fs).severity
       IN reduceCounts_overwrite(Tail(fs),
            [k \in DOMAIN acc \cup {sev} |-> IF k = sev THEN 1 ELSE acc[k]])

\* the reducer of findings.reduce: acc[severity] = (acc[severity] || 0) + 1
RECURSIVE reduceCounts(_, _)
reduceCounts(fs, acc) ==
  IF fs = <<>> THEN acc
  ELSE LET sev == Head(fs).severity
           old == IF sev \in DOMAIN acc THEN acc[sev] ELSE 0
       IN reduceCounts(Tail(fs),
            [k \in DOMAIN acc \cup {sev} |-> IF k = sev THEN old + 1 ELSE acc[k]])

\* mutant: reduce is called without an initial value, so the first finding
\* is taken as the accumulator and is not counted
counts_noInitialValue(fs) ==
  IF fs = <<>> THEN <<>> ELSE reduceCounts(Tail(fs), <<>>)

counts(fs) == reduceCounts(fs, <<>>)

\* counts[severityKey] || 0
count(fs, severityKey) ==
  IF severityKey \in DOMAIN counts(fs) THEN counts(fs)[severityKey] ELSE 0

\* one card per entry of severityConfig, in key order
SummaryCards(fs) ==
  [i \in 1..Len(SeverityLevel) |->
     [severity |-> SeverityLevel[i], count |-> count(fs, SeverityLevel[i])]]

(***************************************************************************)
(* FindingsTable: derived values                                           *)
(***************************************************************************)
\* mutant: the tool comparison ignores case
toLowerCase(str) == IF str = "Grype" THEN "grype" ELSE str

matchesTab_ignoreCase(finding, tab) ==
  tab = "all" \/ toLowerCase(finding.tool) = toLowerCase(tab)

matchesTab(finding, tab) == tab = "all" \/ finding.tool = tab

\* mutant: an empty severity selection is taken to mean no severity filter
matchesSeverity_emptyMeansAll(finding, sevFilter) ==
  Len(sevFilter) = 0 \/ includes(sevFilter, finding.severity)

\* mutant: a severity that is no key of severityConfig passes the filter
matchesSeverity_unknownPasses(finding, sevFilter) ==
  finding.severity \notin DOMAIN severityConfig \/ includes(sevFilter, finding.severity)

matchesSeverity(finding, sevFilter) == includes(sevFilter, finding.severity)

RECURSIVE filterFindings(_, _, _)
filterFindings(fs, tab, sevFilter) ==
  IF fs = <<>> THEN <<>>
  ELSE LET rest == filterFindings(Tail(fs), tab, sevFilter)
       IN IF matchesTab(Head(fs), tab) /\ matchesSeverity(Head(fs), sevFilter)
          THEN <<Head(fs)>> \o rest
          ELSE rest

filteredFindings == filterFindings(findings, activeTab, severityFilter)

\* mutant: a tool seen for the first time is put in front
RECURSIVE uniqueTools_prepend(_, _)
uniqueTools_prepend(fs, seen) ==
  IF fs = <<>> THEN seen
  ELSE uniqueTools_prepend(Tail(fs),
         IF includes(seen, Head(fs).tool) THEN seen ELSE <<Head(fs).tool>> \o seen)

\* [...new Set(findings.map(f => f.tool))]: a Set iterates in insertion order
RECURSIVE uniqueTools(_, _)
uniqueTools(fs, seen) ==
  IF fs = <<>> THEN seen
  ELSE uniqueTools(Tail(fs),
         IF includes(seen, Head(fs).tool) THEN seen ELSE Append(seen, Head(fs).tool))

tools == uniqueTools(findings, <<>>)

\* the values of the Tabs.Trigger elements, in render order
tabValues == <<"all">> \o tools

\* mutant: the updater removes a selected severity and never adds one back
toggleSeverity_removeOnly(prev, severityKey) ==
  SelectSeq(prev, LAMBDA s : s # severityKey)

\* mutant: with all four selected the updater appends without testing membership
toggleSeverity_appendsDuplicate(prev, severityKey) ==
  IF Len(prev) = 4 THEN Append(prev, severityKey)
  ELSE IF includes(prev, severityKey)
  THEN SelectSeq(prev, LAMBDA s : s # severityKey)
  ELSE Append(prev, severityKey)

\* the updater passed to setSeverityFilter
toggleSeverity(prev, severityKey) ==
  IF includes(prev, severityKey)
  THEN SelectSeq(prev, LAMBDA s : s # severityKey)
  ELSE Append(prev, severityKey)

\* what FindingsTable renders
emptyMessage == "No findings match the current filters."

FindingsTableView ==
  [rows      |-> filteredFindings,
   tabs      |-> tabValues,
   messages  |-> IF Len(filteredFindings) = 0 THEN {emptyMessage} ELSE {},
   dialogOpen |-> selectedFinding # null]

\* the optional fields of a Finding that the details dialog shows
optionalFields == {"lineNumber", "description", "recommendation", "cve"}

detailLabel ==
  [lineNumber |-> "Line Number", description |-> "Description",
   recommendation |-> "Recommendation", cve |-> "CVE"]

\* what {finding[field] && (<div>label, value</div>)} renders: an absent field
\* (undefined) and an empty string render nothing, the number 0 renders as
\* the text 0, every other value renders the labelled section
renderOptional(finding, field) ==
  IF field \notin DOMAIN finding THEN [kind |-> "nothing"]
  ELSE IF field = "lineNumber" /\ finding[field] = 0 THEN [kind |-> "text", text |-> "0"]
  ELSE IF field # "lineNumber" /\ finding[field] = "" THEN [kind |-> "nothing"]
  ELSE [kind |-> "section", label |-> detailLabel[field], field |-> field]

\* what Dialog.Content renders
DetailsView ==
  IF selectedFinding = null THEN [open |-> FALSE]
  ELSE IF selectedFinding.severity \notin DOMAIN severityConfig THEN [open |-> TRUE, threw |-> TRUE]
  ELSE [open     |-> TRUE,
        threw    |-> FALSE,
        severity |-> selectedFinding.severity,
        tool     |-> selectedFinding.tool,
        optional |-> [field \in optionalFields |-> renderOptional(selectedFinding, field)]]

(***************************************************************************)
(* FindingsTable: handlers                                                 *)
(***************************************************************************)
\* mutant: LOW is not selected at the start
initialSeverityFilter_withoutLow == <<"CRITICAL", "HIGH", "MEDIUM">>

initialSeverityFilter == <<"CRITICAL", "HIGH", "MEDIUM", "LOW">>

TableInit ==
  /\ selectedFinding = null
  /\ activeTab = "all"
  /\ severityFilter = initialSeverityFilter
  /\ clickParity = [s \in DOMAIN severityConfig |-> 0]

\* mutant: the handler filters the findings array in place
ClickSeverity_filtersInPlace(severityKey) ==
  /\ severityFilter' = toggleSeverity(severityFilter, severityKey)
  /\ clickParity' = [clickParity EXCEPT ![severityKey] = (@ + 1) % 2]
  /\ findings' = filterFindings(findings, activeTab, severityFilter')
  /\ UNCHANGED <<selectedFinding, activeTab>>
  /\ UNCHANGED <<block, mounted, loading, data, consoleErrors>>
  /\ UNCHANGED asmVars

\* onClick of the button of severityKey
ClickSeverity(severityKey) ==
  /\ severityFilter' = toggleSeverity(severityFilter, severityKey)
  /\ clickParity' = [clickParity EXCEPT ![severityKey] = (@ + 1) % 2]
  /\ UNCHANGED <<selectedFinding, activeTab>>
  /\ UNCHANGED appVars
  /\ UNCHANGED asmVars

\* mutant: a tab change also resets the severity selection
ClickTab_resetsFilter(value) ==
  /\ activeTab' = value
  /\ severityFilter' = initialSeverityFilter
  /\ clickParity' = [s \in DOMAIN severityConfig |-> 0]
  /\ UNCHANGED selectedFinding
  /\ UNCHANGED appVars
  /\ UNCHANGED asmVars

\* onValueChange of Tabs.Root, called with the value of the clicked trigger
ClickTab(value) ==
  /\ activeTab' = value
  /\ UNCHANGED <<selectedFinding, severityFilter, clickParity>>
  /\ UNCHANGED appVars
  /\ UNCHANGED asmVars

\* mutant: the row index is used on the unfiltered findings
ViewDetails_indexInFindings(index) ==
  /\ index \in 1..Len(filteredFindings)
  /\ selectedFinding' = findings[index]
  /\ UNCHANGED <<activeTab, severityFilter, clickParity>>
  /\ UNCHANGED appVars
  /\ UNCHANGED asmVars

\* onClick of the View Details button of row index
ViewDetails(index) ==
  /\ index \in 1..Len(filteredFindings)
  /\ selectedFinding' = filteredFindings[index]
  /\ UNCHANGED <<activeTab, severityFilter, clickParity>>
  /\ UNCHANGED appVars
  /\ UNCHANGED asmVars

\* onOpenChange of Dialog.Root
DialogOpenChange ==
  /\ selectedFinding # null
  /\ selectedFinding' = null
  /\ UNCHANGED <<activeTab, severityFilter, clickParity>>
  /\ UNCHANGED appVars
  /\ UNCHANGED asmVars

TableNext ==
  \/ \E severityKey \in DOMAIN severityConfig : ClickSeverity(severityKey)
  \/ \E i \in 1..Len(tabValues) : ClickTab(tabValues[i])
  \/ \E index \in 1..Len(filteredFindings) : ViewDetails(index)
  \/ DialogOpenChange

\* generate-report.js is a separate program: here it is not run
AsmNotStarted ==
  /\ env = [argv |-> <<>>]
  /\ outputs = <<>>
  /\ proc = [pc |-> "not-started"]

(***************************************************************************)
(* Spec: the components rendered with a findings prop                      *)
(***************************************************************************)
Init ==
  /\ block = [present |-> FALSE, textContent |-> ""]
  /\ mounted = FALSE
  /\ loading = TRUE
  /\ data = null
  /\ consoleErrors = <<>>
  /\ findings \in FindingLists
  /\ TableInit
  /\ AsmNotStarted

Next == TableNext

Spec == Init /\ [][Next]_vars

(***************************************************************************)
(* App                                                                     *)
(***************************************************************************)
sampleData ==
  [kind |-> "object",
   findings |->
     << [tool |-> "Grype", severity |-> "CRITICAL",
         message |-> "Vulnerability CVE-2025-1234 in libfoo",
         location |-> "package.json",
         description |-> "A critical vulnerability has been discovered in libfoo that could allow remote code execution.",
         recommendation |-> "Upgrade to version 2.3.4 or later",
         cve |-> "CVE-2025-1234"],
        [tool |-> "git-secrets", severity |-> "HIGH",
         message |-> "AWS secret detected",
         location |-> "src/config.js",
         lineNumber |-> 42,
         pattern |-> "AKIA[0-9A-Z]{16}",
         description |-> "AWS access key detected in source code.",
         recommendation |-> "Remove the hardcoded AWS access key and use environment variables or AWS IAM roles."],
        [tool |-> "Semgrep", severity |-> "MEDIUM",
         message |-> "Potential SQL injection vulnerability",
         location |-> "src/database.js",
         lineNumber |-> 128,
         description |-> "User input is directly concatenated into SQL query.",
         recommendation |-> "Use parameterized queries or prepared statements."],
        [tool |-> "CDK-nag", severity |-> "LOW",
         message |-> "S3 bucket versioning not enabled",
         location |-> "infrastructure/s3-bucket.ts",
         description |-> "S3 bucket does not have versioning enabled.",
         recommendation |-> "Enable versioning for better data protection and recovery options."] >>,
   metadata |->
     [scanDate |-> "now", totalFindings |-> 4,
      tools |-> <<"Grype", "git-secrets", "Semgrep", "CDK-nag">>]]

\* the texts the embedded block is drawn from
textMalformed == "{ invalid json"

textNull == "null"

textNoFindings ==
  "{\"findings\":[],\"metadata\":{\"scanDate\":\"2025-01-15T10:30:00Z\",\"totalFindings\":0,\"tools\":[]}}"

textTwoFindings ==
  "{\"findings\":[{\"tool\":\"Grype\",\"severity\":\"CRITICAL\"},{\"tool\":\"git-secrets\",\"severity\":\"UNKNOWN\"}],\"metadata\":{\"scanDate\":\"2025-01-15T10:30:00Z\",\"totalFindings\":5,\"tools\":[\"Grype\",\"git-secrets\"]}}"

\* JSON that parses, to a value that is not shaped like an ASHReport
textEmptyObject == "{}"

textNumber == "42"

textZero == "0"

textNoMetadata == "{\"findings\":[]}"

textNoTools == "{\"findings\":[],\"metadata\":{}}"

BlockTexts ==
  {"", textMalformed, textNull, textNoFindings, textTwoFindings,
   textEmptyObject, textNumber, textZero, textNoMetadata, textNoTools}

Blocks ==
  {[present |-> FALSE, textContent |-> ""]}
    \cup [present : {TRUE}, textContent : BlockTexts]

\* JSON.parse on the texts above: the value, or the SyntaxError thrown
JSONparse(text) ==
  CASE text = textNull ->
         [threw |-> FALSE, value |-> null]
    [] text = textNoFindings ->
         [threw |-> FALSE,
          value |-> [kind |-> "object", findings |-> <<>>,
                     metadata |-> [scanDate |-> "2025-01-15T10:30:00Z",
                                   totalFindings |-> 0, tools |-> <<>>]]]
    [] text = textTwoFindings ->
         [threw |-> FALSE,
          value |-> [kind |-> "object",
                     findings |-> << [tool |-> "Grype", severity |-> "CRITICAL"],
                                     [tool |-> "git-secrets", severity |-> "UNKNOWN"] >>,
                     metadata |-> [scanDate |-> "2025-01-15T10:30:00Z",
                                   totalFindings |-> 5,
                                   tools |-> <<"Grype", "git-secrets">>]]]
    [] text = textEmptyObject ->
         [threw |-> FALSE, value |-> [kind |-> "object"]]
    [] text = textNumber ->
         [threw |-> FALSE, value |-> [kind |-> "number", number |-> 42]]
    [] text = textZero ->
         [threw |-> FALSE, value |-> [kind |-> "number", number |-> 0]]
    [] text = textNoMetadata ->
         [threw |-> FALSE, value |-> [kind |-> "object", findings |-> <<>>]]
    [] text = textNoTools ->
         [threw |-> FALSE,
          value |-> [kind |-> "object", findings |-> <<>>,
                     metadata |-> [kind |-> "object"]]]
    [] text = "" ->
         [threw |-> TRUE, error |-> "SyntaxError: Unexpected end of JSON input"]
    [] OTHER ->
         [threw |-> TRUE, error |-> "SyntaxError: Unexpected token"]

\* document.getElementById("ash-data")?.textContent is truthy
jsonDataTruthy(b) == b.present /\ b.textContent # ""

\* the findings prop App passes to SummaryCards and FindingsTable
findingsProp(d) ==
  IF d.kind = "object" /\ "findings" \in DOMAIN d THEN d.findings ELSE <<>>

\* mutant: a Report without findings is taken for no data
falsy_orNoFindings(d) ==
  \/ d = null
  \/ (d.kind = "number" /\ d.number = 0)
  \/ (d.kind = "object" /\ "findings" \in DOMAIN d /\ d.findings = <<>>)

\* !data
falsy(d) == d = null \/ (d.kind = "number" /\ d.number = 0)

\* data.findings is undefined: data.findings.length throws a TypeError
findingsUndefined(d) == d.kind # "object" \/ "findings" \notin DOMAIN d

\* data.metadata exists and data.metadata.tools is undefined:
\* data.metadata?.tools.join throws a TypeError
toolsUndefined(d) ==
  /\ d.kind = "object"
  /\ "metadata" \in DOMAIN d
  /\ "tools" \notin DOMAIN d.metadata

\* mutant: the header shows metadata.totalFindings when the metadata has one
AppView_metadataTotal ==
  IF loading THEN
    [branch |-> "loading", texts |-> {"Loading security report..."}]
  ELSE IF falsy(data) THEN
    [branch |-> "no-data",
     texts |-> {"No Data Available", "Unable to load ASH security report data."}]
  ELSE IF findingsUndefined(data) THEN
    [branch |-> "exception",
     texts |-> {"TypeError: Cannot read properties of undefined (reading 'length')"}]
  ELSE IF toolsUndefined(data) THEN
    [branch |-> "exception",
     texts |-> {"TypeError: Cannot read properties of undefined (reading 'join')"}]
  ELSE
    [branch |-> "report", texts |-> {"ASH Security Report"},
     totalFindings |->
       IF "metadata" \in DOMAIN data /\ "totalFindings" \in DOMAIN data.metadata
       THEN data.metadata.totalFindings
       ELSE Len(data.findings)]

\* the branch of App's render; the report branch evaluates
\* data.findings.length and data.metadata?.tools.join before the children
AppView ==
  IF loading THEN
    [branch |-> "loading", texts |-> {"Loading security report..."}]
  ELSE IF falsy(data) THEN
    [branch |-> "no-data",
     texts |-> {"No Data Available", "Unable to load ASH security report data."}]
  ELSE IF findingsUndefined(data) THEN
    [branch |-> "exception",
     texts |-> {"TypeError: Cannot read properties of undefined (reading 'length')"}]
  ELSE IF toolsUndefined(data) THEN
    [branch |-> "exception",
     texts |-> {"TypeError: Cannot read properties of undefined (reading 'join')"}]
  ELSE
    [branch |-> "report", texts |-> {"ASH Security Report"},
     totalFindings |-> Len(data.findings)]

\* mutant: a parse error falls back to the sample Report
MountEffect_sampleOnError ==
  /\ ~mounted
  /\ mounted' = TRUE
  /\ IF jsonDataTruthy(block)
     THEN LET parsed == JSONparse(block.textContent)
          IN IF parsed.threw
             THEN /\ consoleErrors' =
                       Append(consoleErrors, <<"Failed to parse ASH data:", parsed.error>>)
                  /\ data' = sampleData
             ELSE /\ data' = parsed.value
                  /\ UNCHANGED consoleErrors
     ELSE /\ data' = sampleData
          /\ UNCHANGED consoleErrors
  /\ loading' = FALSE
  /\ findings' = findingsProp(data')
  /\ UNCHANGED <<block, selectedFinding, activeTab, severityFilter, clickParity>>
  /\ UNCHANGED asmVars

\* mutant: the catch block swallows the parse error without logging it
MountEffect_silentCatch ==
  /\ ~mounted
  /\ mounted' = TRUE
  /\ IF jsonDataTruthy(block)
     THEN LET parsed == JSONparse(block.textContent)
          IN IF parsed.threw
             THEN /\ UNCHANGED consoleErrors
                  /\ data' = data
             ELSE /\ data' = parsed.value
                  /\ UNCHANGED consoleErrors
     ELSE /\ data' = sampleData
          /\ UNCHANGED consoleErrors
  /\ loading' = FALSE
  /\ findings' = findingsProp(data')
  /\ UNCHANGED <<block, selectedFinding, activeTab, severityFilter, clickParity>>
  /\ UNCHANGED asmVars

\* mutant: setLoading(false) is skipped when the parse throws
MountEffect_loadingKeptOnError ==
  /\ ~mounted
  /\ mounted' = TRUE
  /\ IF jsonDataTruthy(block)
     THEN LET parsed == JSONparse(block.textContent)
          IN IF parsed.threw
             THEN /\ consoleErrors' =
                       Append(consoleErrors, <<"Failed to parse ASH data:", parsed.error>>)
                  /\ data' = data
                  /\ loading' = loading
             ELSE /\ data' = parsed.value
                  /\ loading' = FALSE
                  /\ UNCHANGED consoleErrors
     ELSE /\ data' = sampleData
          /\ loading' = FALSE
          /\ UNCHANGED consoleErrors
  /\ findings' = findingsProp(data')
  /\ UNCHANGED <<block, selectedFinding, activeTab, severityFilter, clickParity>>
  /\ UNCHANGED asmVars

\* the effect of useEffect(..., []): runs once, after the first render
MountEffect ==
  /\ ~mounted
  /\ mounted' = TRUE
  /\ IF jsonDataTruthy(block)
     THEN LET parsed == JSONparse(block.textContent)
          IN IF parsed.threw
             THEN /\ consoleErrors' =
                       Append(consoleErrors, <<"Failed to parse ASH data:", parsed.error>>)
                  /\ data' = data
             ELSE /\ data' = parsed.value
                  /\ UNCHANGED consoleErrors
     ELSE /\ data' = sampleData
          /\ UNCHANGED consoleErrors
  /\ loading' = FALSE
  /\ findings' = findingsProp(data')
  /\ UNCHANGED <<block, selectedFinding, activeTab, severityFilter, clickParity>>
  /\ UNCHANGED asmVars

(***************************************************************************)
(* SpecApp: the App from construction                                      *)
(***************************************************************************)
InitApp ==
  /\ block \in Blocks
  /\ mounted = FALSE
  /\ loading = TRUE
  /\ data = null
  /\ consoleErrors = <<>>
  /\ findings = <<>>
  /\ TableInit
  /\ AsmNotStarted

NextApp ==
  \/ MountEffect
  \/ (AppView.branch = "report" /\ TableNext)

SpecApp == InitApp /\ [][NextApp]_vars

\* Preact runs the effect of useEffect(..., []) after the first render: the
\* mount effect, once enabled, is eventually run
SpecAppFair == SpecApp /\ WF_vars(MountEffect)

(***************************************************************************)
(* scripts/generate-report.js                                              *)
(*                                                                         *)
(* A text is a sequence of tokens; a placeholder and a replacement pattern *)
(* ($$, $&, $`, $') are one token each.                                    *)
(***************************************************************************)
templateHead == "<!DOCTYPE html><html lang=en><head>...<title>ASH Security Report</title>"

templateBody == "</head><body><div id=app></div><script id=ash-data type=application/json>"

templateScript == "</script><script>"

templateEnd == "</script></body></html>"

template ==
  <<templateHead, "__CSS_SECTION__", templateBody, "__ASH_DATA__",
    templateScript, "__JS_CONTENT__", templateEnd>>

\* GetSubstitution of String.prototype.replace, for a string pattern
RECURSIVE expandReplacement(_, _, _, _)
expandReplacement(replacement, matched, before, after) ==
  IF replacement = <<>> THEN <<>>
  ELSE LET tok == Head(replacement)
           out == CASE tok = "$$" -> <<"$">>
                    [] tok = "$&" -> <<matched>>
                    [] tok = "$`" -> before
                    [] tok = "$'" -> after
                    [] OTHER -> <<tok>>
       IN out \o expandReplacement(Tail(replacement), matched, before, after)

\* String.prototype.replace(pattern, replacement) with a string pattern:
\* the first occurrence only
replace(str, pattern, replacement) ==
  IF ~includes(str, pattern) THEN str
  ELSE LET i == CHOOSE k \in 1..Len(str) :
                  str[k] = pattern /\ \A j \in 1..(k - 1) : str[j] # pattern
           before == SubSeq(str, 1, i - 1)
           after == SubSeq(str, i + 1, Len(str))
       IN before \o expandReplacement(replacement, pattern, before, after) \o after

\* the file names of dist/assets
jsBundle == "index-abc123.js"

jsVendor == "vendor-def456.js"

cssBundle == "index-abc123.css"

jsSourceMap == "index-abc123.js.map"

\* String.prototype.endsWith on the file names above
endsWith(file, suffix) ==
  CASE suffix = ".js" -> file \in {jsBundle, jsVendor}
    [] suffix = ".css" -> file = cssBundle
    [] OTHER -> FALSE

\* files.find(file => file.endsWith(suffix)): found, and the first match
find(files, suffix) ==
  IF \E i \in 1..Len(files) : endsWith(files[i], suffix)
  THEN [found |-> TRUE,
        file |-> files[CHOOSE i \in 1..Len(files) :
                         /\ endsWith(files[i], suffix)
                         /\ \A j \in 1..(i - 1) : ~endsWith(files[j], suffix)]]
  ELSE [found |-> FALSE, file |-> ""]

\* readFileSync(path, 'utf-8') returns a text (else it throws)
readable(path) == path \in DOMAIN env.files /\ env.files[path].readable

defaultOutputPath == "ash-security-report.html"

\* the catch block of the command line: console.error and process.exit(1)
failed(message) ==
  [proc EXCEPT !.pc = "exited", !.exitCode = 1,
               !.stderr = Append(@, <<"Error generating report:", message>>)]

\* mutant: the second argument is ignored
AsmStart_ignoresOutputArgument ==
  /\ proc.pc = "start"
  /\ IF Len(env.argv) < 1
     THEN proc' = [proc EXCEPT !.pc = "exited", !.exitCode = 1,
                               !.stdout = Append(@, "Usage: node generate-report.js <ash-data.json> [output.html]")]
     ELSE proc' = [proc EXCEPT
                     !.pc = "findAssets",
                     !.ashDataPath = env.argv[1],
                     !.outputPath = defaultOutputPath]
  /\ UNCHANGED <<env, outputs>>
  /\ UNCHANGED uiVars

\* the command line: the usage exit, ashDataPath and outputPath
AsmStart ==
  /\ proc.pc = "start"
  /\ IF Len(env.argv) < 1
     THEN proc' = [proc EXCEPT !.pc = "exited", !.exitCode = 1,
                               !.stdout = Append(@, "Usage: node generate-report.js <ash-data.json> [output.html]")]
     ELSE proc' = [proc EXCEPT
                     !.pc = "findAssets",
                     !.ashDataPath = env.argv[1],
                     !.outputPath = IF Len(env.argv) >= 2 /\ env.argv[2] # ""
                                    THEN env.argv[2] ELSE defaultOutputPath]
  /\ UNCHANGED <<env, outputs>>
  /\ UNCHANGED uiVars

\* findAssetFiles
AsmFindAssets ==
  /\ proc.pc = "findAssets"
  /\ IF ~env.assetsDirExists
     THEN proc' = failed("ENOENT: no such file or directory, scandir")
     ELSE LET cssFile == find(env.assetFiles, ".css")
              jsFile == find(env.assetFiles, ".js")
          IN IF ~jsFile.found
             THEN proc' = failed("Missing JavaScript bundle")
             ELSE proc' = [proc EXCEPT !.pc = "readData",
                                       !.assets = [hasCss |-> cssFile.found,
                                                   css |-> cssFile.file,
                                                   js |-> jsFile.file]]
  /\ UNCHANGED <<env, outputs>>
  /\ UNCHANGED uiVars

\* mutant: the output file is opened (truncated) before the data is read
AsmReadData_truncatesOutput ==
  /\ proc.pc = "readData"
  /\ outputs' = [outputs EXCEPT ![proc.outputPath] = [exists |-> TRUE, text |-> <<>>]]
  /\ IF readable(proc.ashDataPath)
     THEN proc' = [proc EXCEPT !.pc = "readJs",
                               !.ashData = env.files[proc.ashDataPath].text,
                               !.reads = Append(@, proc.ashDataPath)]
     ELSE proc' = failed("ENOENT: no such file or directory, open")
  /\ UNCHANGED env
  /\ UNCHANGED uiVars

\* const ashData = readFileSync(ashDataPath, 'utf-8')
AsmReadData ==
  /\ proc.pc = "readData"
  /\ IF readable(proc.ashDataPath)
     THEN proc' = [proc EXCEPT !.pc = "readJs",
                               !.ashData = env.files[proc.ashDataPath].text,
                               !.reads = Append(@, proc.ashDataPath)]
     ELSE proc' = failed("ENOENT: no such file or directory, open")
  /\ UNCHANGED <<env, outputs>>
  /\ UNCHANGED uiVars

\* const jsContent = readFileSync(assets.js, 'utf-8')
AsmReadJs ==
  /\ proc.pc = "readJs"
  /\ IF readable(proc.assets.js)
     THEN proc' = [proc EXCEPT !.pc = "cssSection",
                               !.jsContent = env.files[proc.assets.js].text,
                               !.reads = Append(@, proc.assets.js)]
     ELSE proc' = failed("EACCES: permission denied, open")
  /\ UNCHANGED <<env, outputs>>
  /\ UNCHANGED uiVars

\* let cssSection = ''; if (assets.css) { ... }
AsmCssSection ==
  /\ proc.pc = "cssSection"
  /\ IF proc.assets.hasCss
     THEN IF readable(proc.assets.css)
          THEN proc' = [proc EXCEPT
                          !.pc = "generate",
                          !.cssSection = <<"<style>">> \o env.files[proc.assets.css].text
                                           \o <<"</style>">>,
                          !.reads = Append(@, proc.assets.css)]
          ELSE proc' = failed("EACCES: permission denied, open")
     ELSE proc' = [proc EXCEPT !.pc = "generate", !.cssSection = <<>>]
  /\ UNCHANGED <<env, outputs>>
  /\ UNCHANGED uiVars

\* const html = template.replace(...).replace(...).replace(...)
AsmGenerate ==
  /\ proc.pc = "generate"
  /\ proc' = [proc EXCEPT
                !.pc = "write",
                !.html = replace(replace(replace(template, "__ASH_DATA__", proc.ashData),
                                         "__CSS_SECTION__", proc.cssSection),
                                 "__JS_CONTENT__", proc.jsContent)]
  /\ UNCHANGED <<env, outputs>>
  /\ UNCHANGED uiVars

\* writeFileSync(outputPath, html, 'utf-8'), then the process ends
AsmWrite ==
  /\ proc.pc = "write"
  /\ outputs' = [outputs EXCEPT ![proc.outputPath] = [exists |-> TRUE, text |-> proc.html]]
  /\ proc' = [proc EXCEPT !.pc = "exited", !.exitCode = 0,
                          !.writes = Append(@, proc.outputPath)]
  /\ UNCHANGED env
  /\ UNCHANGED uiVars

(***************************************************************************)
(* SpecAsm: one run of generate-report.js                                  *)
(***************************************************************************)
\* the tokens a file is made of, and the file contents tried
ContentTokens ==
  {"x", "$$", "$&", "$`", "$'", "__ASH_DATA__", "__CSS_SECTION__", "__JS_CONTENT__"}

Contents == {<<>>} \cup {<<tok>> : tok \in ContentTokens}

inputPath == "in.json"

sampleDataPath == "sample-ash-data.json"

OutputPaths == {"out.html", defaultOutputPath}

\* the listings of dist/assets tried, in readdir order
AssetListings ==
  {<<>>, <<jsBundle>>, <<cssBundle>>, <<jsBundle, cssBundle>>, <<cssBundle, jsBundle>>,
   <<jsBundle, jsVendor>>, <<jsVendor, jsBundle, cssBundle>>, <<jsSourceMap, jsBundle>>}

ArgvChoices ==
  {<<>>, <<inputPath>>, <<inputPath, "out.html">>, <<inputPath, "">>, <<"">>}

AsmFiles(dataReadable, jsReadable, cssReadable, dataText, jsText, cssText) ==
  (inputPath :> [readable |-> dataReadable, text |-> dataText])
    @@ (sampleDataPath :> [readable |-> TRUE, text |-> <<"sample">>])
    @@ (jsBundle :> [readable |-> jsReadable, text |-> jsText])
    @@ (jsVendor :> [readable |-> TRUE, text |-> <<"vendor">>])
    @@ (cssBundle :> [readable |-> cssReadable, text |-> cssText])
    @@ (jsSourceMap :> [readable |-> TRUE, text |-> <<"map">>])

\* every content of the three files, in a complete build
EnvsByContent ==
  {[argv |-> <<inputPath, "out.html">>, assetsDirExists |-> TRUE, assetFiles |-> listing,
    files |-> AsmFiles(TRUE, TRUE, TRUE, dataText, jsText, cssText)] :
     listing \in {<<jsBundle, cssBundle>>}, dataText \in Contents,
     jsText \in Contents, cssText \in Contents}
  \cup
  {[argv |-> <<inputPath, "out.html">>, assetsDirExists |-> TRUE, assetFiles |-> <<jsBundle>>,
    files |-> AsmFiles(TRUE, TRUE, TRUE, dataText, jsText, <<"x">>)] :
     dataText \in Contents, jsText \in Contents}

\* every command line, listing and readability, with fixed contents
EnvsByFileSystem ==
  {[argv |-> argv, assetsDirExists |-> TRUE, assetFiles |-> listing,
    files |-> AsmFiles(dataReadable, jsReadable, cssReadable, <<"x">>, <<"x">>, <<"x">>)] :
     argv \in ArgvChoices, listing \in AssetListings,
     dataReadable \in BOOLEAN, jsReadable \in BOOLEAN, cssReadable \in BOOLEAN}
  \cup
  {[argv |-> argv, assetsDirExists |-> FALSE, assetFiles |-> <<>>,
    files |-> AsmFiles(TRUE, TRUE, TRUE, <<"x">>, <<"x">>, <<"x">>)] :
     argv \in ArgvChoices}

\* the files at the output paths before the run: none, or an earlier report
InitialOutputs ==
  {[path \in OutputPaths |-> [exists |-> FALSE, text |-> <<>>]],
   [path \in OutputPaths |-> [exists |-> TRUE, text |-> <<"earlier report">>]]}

InitAsm ==
  /\ block = [present |-> FALSE, textContent |-> ""]
  /\ mounted = FALSE
  /\ loading = TRUE
  /\ data = null
  /\ consoleErrors = <<>>
  /\ findings = <<>>
  /\ TableInit
  /\ outputs \in InitialOutputs
  /\ \E e \in EnvsByContent \cup EnvsByFileSystem :
       env = e @@ [outputsBefore |-> outputs]
  /\ proc = [pc |-> "start", exitCode |-> -1, stdout |-> <<>>, stderr |-> <<>>,
             ashDataPath |-> "", outputPath |-> "",
             assets |-> [hasCss |-> FALSE, css |-> "", js |-> ""],
             ashData |-> <<>>, jsContent |-> <<>>, cssSection |-> <<>>, html |-> <<>>,
             reads |-> <<>>, writes |-> <<>>]

NextAsm ==
  \/ AsmStart
  \/ AsmFindAssets
  \/ AsmReadData
  \/ AsmReadJs
  \/ AsmCssSection
  \/ AsmGenerate
  \/ AsmWrite

SpecAsm == InitAsm /\ [][NextAsm]_vars

(***************************************************************************)
(* SpecDetails: FindingsTable with one finding whose optional fields are   *)
(* absent, empty or filled                                                 *)
(***************************************************************************)
withOptional(fs, field, values) ==
  fs \cup {f @@ (field :> v) : f \in fs, v \in values}

DetailFinding ==
  withOptional(
    withOptional(
      withOptional(
        withOptional({[tool |-> "Grype", severity |-> "HIGH"]},
                     "lineNumber", {0, 42}),
        "description", {"", "A vulnerable dependency"}),
      "recommendation", {"", "Upgrade the package"}),
    "cve", {"", "CVE-2023-1234"})

InitDetails ==
  /\ block = [present |-> FALSE, textContent |-> ""]
  /\ mounted = FALSE
  /\ loading = TRUE
  /\ data = null
  /\ consoleErrors = <<>>
  /\ findings \in {<<f>> : f \in DetailFinding}
  /\ TableInit
  /\ AsmNotStarted

SpecDetails == InitDetails /\ [][Next]_vars

(***************************************************************************)
(* Properties                                                              *)
(***************************************************************************)
KnownSeverities == {"CRITICAL", "HIGH", "MEDIUM", "LOW"}

\* the positions of the findings that pass both selections
Matching ==
  {i \in 1..Len(findings) :
     /\ activeTab = "all" \/ findings[i].tool = activeTab
     /\ findings[i].severity \in Range(severityFilter)}

\* the k-th smallest member of a set of positions
NthOf(S, k) == CHOOSE i \in S : Cardinality({j \in S : j <= i}) = k

\* C1: the list shown by FindingsTable is exactly the findings that satisfy
\* (activeTab = 'all' or tool = activeTab) and severity in the selection,
\* each once, in their original relative order.
C1_FilteredIsMatchingSubsequence ==
  /\ Len(filteredFindings) = Cardinality(Matching)
  /\ \A k \in 1..Len(filteredFindings) :
       filteredFindings[k] = findings[NthOf(Matching, k)]

C1_Witness ==
  /\ Len(findings) >= 2
  /\ activeTab # "all"
  /\ Len(severityFilter) < 4
  /\ Len(filteredFindings) = 1
  /\ \E i \in 1..Len(findings) :
       findings[i].tool # activeTab /\ findings[i].severity \in Range(severityFilter)

\* C2: SummaryCards renders one card for each of CRITICAL, HIGH, MEDIUM, LOW,
\* whose count is the number of findings with exactly that severity (0 when
\* none); the four counts sum to the number of findings with a recognized
\* severity, which is at most findings.length.
C2_CardCounts ==
  LET cards == SummaryCards(findings)
      Having(sev) == {i \in 1..Len(findings) : findings[i].severity = sev}
      Recognized == {i \in 1..Len(findings) : findings[i].severity \in KnownSeverities}
  IN /\ Len(cards) = 4
     /\ {cards[i].severity : i \in 1..Len(cards)} = KnownSeverities
     /\ \A i \in 1..Len(cards) : cards[i].count = Cardinality(Having(cards[i].severity))
     /\ cards[1].count + cards[2].count + cards[3].count + cards[4].count
          = Cardinality(Recognized)
     /\ Cardinality(Recognized) <= Len(findings)

C2_Witness ==
  /\ \E i \in 1..4 : SummaryCards(findings)[i].count >= 2
  /\ \E i \in 1..4 : SummaryCards(findings)[i].count = 0

\* C3: a finding whose severity is none of the four is left out of the four
\* counts and is still visible in the findings table (stated for the initial
\* selection: all four severities, the All Tools tab).
C3_UnknownSeverityStillVisible ==
  (activeTab = "all" /\ Range(severityFilter) = KnownSeverities) =>
    /\ \A i \in 1..Len(findings) :
         findings[i].severity \notin KnownSeverities =>
           findings[i] \in Range(filteredFindings)
    /\ SummaryCards(findings)[1].count + SummaryCards(findings)[2].count
         + SummaryCards(findings)[3].count + SummaryCards(findings)[4].count
         = Cardinality({i \in 1..Len(findings) : findings[i].severity \in KnownSeverities})

\* C4: a click on the control of severity s flips the membership of s in the
\* selection and leaves every other severity as it was; s is selected iff
\* its control was clicked an even number of times; two clicks on the same
\* control give back the same selected set and the same filtered view.
C4_ClickFlips ==
  \A s \in KnownSeverities :
    clickParity'[s] # clickParity[s] =>
      /\ (s \in Range(severityFilter')) = (s \notin Range(severityFilter))
      /\ \A o \in KnownSeverities \ {s} :
           (o \in Range(severityFilter')) = (o \in Range(severityFilter))

C4_ParityAndTwoClicks ==
  /\ \A s \in KnownSeverities : (s \in Range(severityFilter)) = (clickParity[s] = 0)
  /\ \A s \in KnownSeverities :
       LET twice == toggleSeverity(toggleSeverity(severityFilter, s), s)
       IN /\ Range(twice) = Range(severityFilter)
          /\ filterFindings(findings, activeTab, twice) = filteredFindings

C4_ToggleSemantics == [][C4_ClickFlips]_vars /\ []C4_ParityAndTwoClicks

C4_Witness ==
  /\ clickParity["CRITICAL"] = 0
  /\ severityFilter # initialSeverityFilter
  /\ Range(severityFilter) = KnownSeverities
  /\ Len(filteredFindings) >= 1

\* C5: a severity toggle leaves activeTab and selectedFinding unchanged; a
\* tab change sets activeTab to the value of one of the rendered tabs and
\* leaves the severity selection and selectedFinding unchanged.
C5_Step ==
  /\ severityFilter' # severityFilter =>
       activeTab' = activeTab /\ selectedFinding' = selectedFinding
  /\ activeTab' # activeTab =>
       /\ activeTab' \in Range(tabValues)
       /\ severityFilter' = severityFilter
       /\ selectedFinding' = selectedFinding

C5_AxesIndependent == [][C5_Step]_vars

C5_Witness ==
  /\ activeTab # "all"
  /\ Len(severityFilter) = 3
  /\ selectedFinding # null

\* C6: for every tool t of the findings, whatever string it is, when the tab
\* of t is the active tab the filtered view holds only findings whose tool
\* is exactly t.
C6_ToolTabShowsOnlyItsTool ==
  \A t \in Range(tools) :
    activeTab = t => \A f \in Range(filteredFindings) : f.tool = t

\* C7: with no severity selected the filtered view is empty, whatever the
\* findings and the active tab, and the message 'No findings match the
\* current filters.' is shown; the message is shown exactly when no finding
\* passes the filters.
C7_EmptySelectionEmptyView ==
  /\ Len(severityFilter) = 0 =>
       /\ FindingsTableView.rows = <<>>
       /\ emptyMessage \in FindingsTableView.messages
  /\ (emptyMessage \in FindingsTableView.messages) = (Matching = {})

C7_Witness ==
  /\ Len(severityFilter) = 0
  /\ Len(findings) >= 1
  /\ \E i \in 1..Len(findings) : findings[i].tool = activeTab

\* C8: the tabs after 'All Tools' are the distinct tools of the findings,
\* each once, in order of first occurrence; no findings, no tool tabs.
FirstIndex(t) ==
  CHOOSE i \in 1..Len(findings) :
    findings[i].tool = t /\ \A j \in 1..(i - 1) : findings[j].tool # t

C8_TabsInFirstOccurrenceOrder ==
  LET tabs == FindingsTableView.tabs
      toolTabs == SubSeq(tabs, 2, Len(tabs))
  IN /\ Len(tabs) >= 1 /\ tabs[1] = "all"
     /\ Range(toolTabs) = {findings[i].tool : i \in 1..Len(findings)}
     /\ \A i, j \in 1..Len(toolTabs) : i # j => toolTabs[i] # toolTabs[j]
     /\ \A i, j \in 1..Len(toolTabs) :
          i < j => FirstIndex(toolTabs[i]) < FirstIndex(toolTabs[j])
     /\ findings = <<>> => toolTabs = <<>>

C8_Witness ==
  /\ Len(findings) >= 2
  /\ FindingsTableView.tabs = <<"all", "grype", "Grype">>

\* C9 as stated: after startup the App holds the parsed value when the block
\* is present and parsable, and the built-in sample Report when the block is
\* absent or its content is unparsable.
C9_Original ==
  mounted =>
    IF block.present /\ ~JSONparse(block.textContent).threw
    THEN data = JSONparse(block.textContent).value
    ELSE data = sampleData

\* C9 as amended: after startup the App holds the parsed value when the
\* block is present and parsable, the built-in sample Report when the block
\* is absent or its text is empty, and no Report (data null, the No Data
\* Available view) when the text is non-empty and unparsable; the data never
\* comes from anywhere else.
C9_DataSource ==
  mounted =>
    /\ (block.present /\ ~JSONparse(block.textContent).threw) =>
         data = JSONparse(block.textContent).value
    /\ (~block.present \/ block.textContent = "") =>
         /\ data = sampleData
         /\ Len(data.findings) = 4
         /\ AppView.branch = "report"
    /\ (block.present /\ block.textContent # "" /\ JSONparse(block.textContent).threw) =>
         /\ data = null
         /\ AppView.branch = "no-data"

C9_Witness ==
  /\ mounted
  /\ block.present
  /\ block.textContent = textMalformed
  /\ data = null

\* C10: when the embedded block holds malformed JSON, the App logs 'Failed
\* to parse ASH data:' with the error, keeps data null, ends loading and
\* shows 'No Data Available' / 'Unable to load ASH security report data.'.
C10_MalformedJson ==
  (mounted /\ block.present /\ block.textContent = textMalformed) =>
    /\ Len(consoleErrors) = 1
    /\ consoleErrors[1][1] = "Failed to parse ASH data:"
    /\ consoleErrors[1][2] = JSONparse(textMalformed).error
    /\ data = null
    /\ loading = FALSE
    /\ AppView.texts = {"No Data Available", "Unable to load ASH security report data."}

C10_Witness ==
  /\ mounted
  /\ block.textContent = textMalformed
  /\ Len(consoleErrors) = 1
  /\ AppView.branch = "no-data"

\* C11: whatever the embedded block holds, once the mount effect has run the
\* App shows the report view or the 'No Data Available' view, and no
\* exception escapes the render.
C11_NoExceptionEscapesRender ==
  mounted => AppView.branch \in {"report", "no-data"}

\* C19: the total in the report header is the length of the loaded findings
\* list, whatever metadata.totalFindings says.
C19_HeaderTotalIsFindingsLength ==
  AppView.branch = "report" =>
    /\ AppView.totalFindings = Len(data.findings)
    /\ AppView.totalFindings = Len(findings)
    /\ (block.present /\ block.textContent = textTwoFindings) =>
         AppView.totalFindings = 2

C19_Witness ==
  /\ AppView.branch = "report"
  /\ "metadata" \in DOMAIN data
  /\ data.metadata.totalFindings # Len(data.findings)
  /\ AppView.totalFindings = 2

(***************************************************************************)
(* Properties of generate-report.js, stated on the files of the run        *)
(***************************************************************************)
JsNames == {jsBundle, jsVendor}

JsPositions == {i \in 1..Len(env.assetFiles) : env.assetFiles[i] \in JsNames}

HasJs == JsPositions # {}

HasCss == \E i \in 1..Len(env.assetFiles) : env.assetFiles[i] = cssBundle

\* the JavaScript file the run uses: the first one listed
FirstJs == env.assetFiles[CHOOSE i \in JsPositions : \A j \in JsPositions : i <= j]

ArgumentGiven == Len(env.argv) >= 1

DataReadable == env.argv[1] = inputPath /\ env.files[inputPath].readable

\* one of the failures of C12: no asset directory, no '.js' file, or an
\* unreadable data, JavaScript or CSS file
RunFails ==
  \/ ~env.assetsDirExists
  \/ ~HasJs
  \/ ~DataReadable
  \/ ~env.files[FirstJs].readable
  \/ (HasCss /\ ~env.files[cssBundle].readable)

Contains(text, part) ==
  \E i \in 1..(Len(text) + 1) :
    i + Len(part) - 1 <= Len(text) /\ SubSeq(text, i, i + Len(part) - 1) = part

\* the tokens between the first open marker and the first close marker after it
Region(text, open, close) ==
  IF ~includes(text, open) THEN <<>>
  ELSE LET i == CHOOSE k \in 1..Len(text) :
                  text[k] = open /\ \A j \in 1..(k - 1) : text[j] # open
           rest == SubSeq(text, i + 1, Len(text))
       IN IF ~includes(rest, close) THEN rest
          ELSE SubSeq(rest, 1,
                 (CHOOSE k \in 1..Len(rest) :
                    rest[k] = close /\ \A j \in 1..(k - 1) : rest[j] # close) - 1)

\* C12: a run that fails (no asset directory, no '.js' file, unreadable data,
\* JavaScript or CSS file) exits with a non-zero status, reports the error on
\* standard error and never writes: the files at the output paths stay as
\* they were; the one write of a run comes after every read and after the
\* substitution.
C12_FailingRunWritesNothing ==
  /\ (ArgumentGiven /\ RunFails) =>
       /\ proc.writes = <<>>
       /\ outputs = env.outputsBefore
       /\ proc.pc # "write"
       /\ proc.pc = "exited" =>
            /\ proc.exitCode = 1
            /\ Len(proc.stderr) = 1
            /\ proc.stderr[1][1] = "Error generating report:"
  /\ (proc.writes # <<>> \/ outputs # env.outputsBefore) =>
       /\ proc.pc = "exited" /\ proc.exitCode = 0
       /\ Len(proc.writes) = 1
       /\ proc.reads = <<inputPath, FirstJs>> \o (IF HasCss THEN <<cssBundle>> ELSE <<>>)
       /\ outputs[proc.writes[1]].text = proc.html

C12_Witness ==
  /\ proc.pc = "exited"
  /\ proc.exitCode = 1
  /\ proc.reads = <<inputPath, jsBundle>>
  /\ HasCss /\ ~env.files[cssBundle].readable
  /\ outputs["out.html"].exists

\* C13: with more than one '.js' file in the asset directory the run is
\* fatal: it exits non-zero and writes no output file.
C13_SeveralJsFilesAreFatal ==
  (proc.pc = "exited" /\ ArgumentGiven /\ Cardinality(JsPositions) > 1) =>
    /\ proc.exitCode # 0
    /\ proc.writes = <<>>

\* C14: whatever the data file, the CSS file and the JavaScript bundle
\* contain, the written document is the template with each placeholder
\* replaced by exactly the text of its input.
C14_VerbatimSubstitution ==
  (proc.pc = "exited" /\ proc.exitCode = 0) =>
    outputs[proc.outputPath].text =
      <<templateHead>>
        \o (IF HasCss THEN <<"<style>">> \o env.files[cssBundle].text \o <<"</style>">>
            ELSE <<>>)
        \o <<templateBody>> \o env.files[inputPath].text
        \o <<templateScript>> \o env.files[FirstJs].text
        \o <<templateEnd>>

\* C15: the CSS file is optional: with a JavaScript bundle and no '.css' file
\* the run succeeds and the output has no <style> block; with a CSS file its
\* content is inlined in a <style> block; only a missing JavaScript bundle
\* makes asset discovery fail.
C15_CssIsOptional ==
  (proc.pc = "exited" /\ ArgumentGiven /\ env.assetsDirExists /\ DataReadable
     /\ env.files[cssBundle].readable /\ (HasJs => env.files[FirstJs].readable)) =>
    /\ (proc.exitCode = 0) = HasJs
    /\ (HasJs /\ ~HasCss) => ~includes(outputs[proc.outputPath].text, "<style>")
    /\ (HasJs /\ HasCss) =>
         Contains(outputs[proc.outputPath].text,
                  <<"<style>">> \o env.files[cssBundle].text \o <<"</style>">>)

\* C16: with a JavaScript bundle, a CSS file and a readable data file, one
\* run writes exactly one file, at outputPath, over any file already there,
\* holding the data, style and script regions, each non-empty when its input
\* is non-empty, and exits with status 0.
C16_CompleteBuildWritesReport ==
  (proc.pc = "exited" /\ ArgumentGiven /\ env.assetsDirExists /\ HasJs /\ HasCss
     /\ DataReadable /\ env.files[FirstJs].readable /\ env.files[cssBundle].readable) =>
    LET written == outputs[proc.outputPath].text
    IN /\ proc.exitCode = 0
       /\ proc.writes = <<proc.outputPath>>
       /\ outputs[proc.outputPath].exists
       /\ \A path \in OutputPaths \ {proc.outputPath} : outputs[path] = env.outputsBefore[path]
       /\ includes(written, templateBody)
       /\ includes(written, "<style>")
       /\ includes(written, templateScript)
       /\ env.files[inputPath].text # <<>> => Region(written, templateBody, templateScript) # <<>>
       /\ env.files[cssBundle].text # <<>> => Region(written, "<style>", "</style>") # <<>>
       /\ env.files[FirstJs].text # <<>> => Region(written, templateScript, templateEnd) # <<>>

\* C17: without a first argument the run reads the default sample-data file
\* (sample-ash-data.json) and generates the report from it.
C17_DefaultInputPath ==
  (proc.pc = "exited" /\ Len(env.argv) = 0 /\ env.assetsDirExists /\ HasJs
     /\ env.files[FirstJs].readable /\ env.files[cssBundle].readable) =>
    /\ proc.exitCode = 0
    /\ Len(proc.reads) >= 1 /\ proc.reads[1] = sampleDataPath
    /\ Len(proc.writes) = 1

\* C18 as stated: with an input path and no second argument the report is
\* written to 'ash-security-report.html'; with a second argument it is
\* written to exactly that path and to no other.
C18_Original ==
  (ArgumentGiven /\ proc.writes # <<>>) =>
    /\ Len(env.argv) = 1 => proc.writes = <<defaultOutputPath>>
    /\ Len(env.argv) >= 2 => proc.writes = <<env.argv[2]>>

\* C18 as amended: with an input path and no second argument, or an empty
\* one, the report is written to 'ash-security-report.html'; with a
\* non-empty second argument it is written to exactly that path; no other
\* file is written.
C18_OutputPath ==
  (ArgumentGiven /\ proc.writes # <<>>) =>
    LET target == IF Len(env.argv) >= 2 /\ env.argv[2] # ""
                  THEN env.argv[2] ELSE defaultOutputPath
    IN /\ proc.writes = <<target>>
       /\ outputs[target] = [exists |-> TRUE, text |-> proc.html]
       /\ \A path \in OutputPaths \ {target} : outputs[path] = env.outputsBefore[path]

C18_Witness ==
  /\ proc.pc = "exited"
  /\ env.argv = <<inputPath, "out.html">>
  /\ proc.writes = <<"out.html">>
  /\ env.outputsBefore["out.html"].exists
  /\ outputs[defaultOutputPath] = env.outputsBefore[defaultOutputPath]

\* C20: in the details view of a selected finding, the section of each
\* optional field (lineNumber, description, recommendation, cve) is shown
\* exactly when the field is present, so a field present with an empty value
\* ("" or 0) is rendered differently from an absent one.
C20_SectionShownIffFieldPresent ==
  (selectedFinding # null /\ ~DetailsView.threw) =>
    \A field \in optionalFields :
      /\ (DetailsView.optional[field].kind = "section") = (field \in DOMAIN selectedFinding)
      /\ field \in DOMAIN selectedFinding => DetailsView.optional[field].kind # "nothing"

\* C21: the loaded Report is never mutated: once the mount effect has run,
\* no step (a severity toggle, a tab change, opening or closing the details)
\* changes data or the findings list, whose findings keep their values and
\* order; data is assigned by the mount effect only, which runs once; and
\* the findings list rendered is the one of the loaded Report.
C21_ReportNeverMutated ==
  [][/\ mounted => (mounted' /\ data' = data /\ findings' = findings)
     /\ data' # data => (~mounted /\ mounted')
     /\ mounted' => findings' = findingsProp(data')]_vars

C21_Witness ==
  /\ mounted
  /\ data = JSONparse(textTwoFindings).value
  /\ findings = data.findings
  /\ activeTab = "Grype"
  /\ severityFilter = <<"CRITICAL", "HIGH", "MEDIUM">>
  /\ selectedFinding = findings[1]

\* C22: a loaded Report with zero findings gives the report view in its
\* empty state (the four counts are 0, there is no tool tab, the table shows
\* 'No findings match the current filters.') and not the 'No Data Available'
\* view; the 'No Data Available' view is shown only when no Report value was
\* loaded.
C22_EmptyReportIsNotNoData ==
  mounted =>
    /\ (data.kind = "object" /\ "findings" \in DOMAIN data /\ data.findings = <<>>
          /\ ("metadata" \in DOMAIN data => "tools" \in DOMAIN data.metadata)) =>
         /\ AppView.branch = "report"
         /\ AppView.totalFindings = 0
         /\ \A i \in 1..4 : SummaryCards(findings)[i].count = 0
         /\ FindingsTableView.tabs = <<"all">>
         /\ FindingsTableView.rows = <<>>
         /\ FindingsTableView.messages = {"No findings match the current filters."}
    /\ AppView.branch = "no-data" => data.kind # "object"

C22_Witness ==
  /\ mounted
  /\ block.textContent = textNoFindings
  /\ data.findings = <<>>
  /\ AppView.branch = "report"
  /\ FindingsTableView.messages = {emptyMessage}

\* the permutations of the positions of the findings list
PositionPermutations(n) ==
  {p \in [1..n -> 1..n] : \A i, j \in 1..n : p[i] = p[j] => i = j}

\* C23: aggregation and filtering are deterministic and hold no hidden state:
\* a step that leaves the findings and the selection as they were (opening or
\* closing the details) leaves the counts and the filtered view as they were,
\* the filtered view depends on the set of selected severities only, and no
\* permutation of the findings list changes the counts the cards read, so
\* none of the four severity counts.
C23_Deterministic ==
  /\ [](LET original == counts(findings)
        IN \A p \in PositionPermutations(Len(findings)) :
             counts([i \in 1..Len(findings) |-> findings[p[i]]]) = original)
  /\ [](filteredFindings =
          filterFindings(findings, activeTab,
                         SelectSeq(SeverityLevel, LAMBDA s : s \in Range(severityFilter))))
  /\ [][(findings' = findings /\ activeTab' = activeTab /\ severityFilter' = severityFilter) =>
          /\ filterFindings(findings', activeTab', severityFilter') = filteredFindings
          /\ counts(findings') = counts(findings)]_vars

C23_Witness ==
  /\ Len(findings) = 2
  /\ findings[1].severity = "LOW" /\ findings[2].severity = "CRITICAL"
  /\ count(findings, "LOW") = 1 /\ count(<<findings[2], findings[1]>>, "LOW") = 1
  /\ severityFilter = <<"LOW", "CRITICAL">>
  /\ selectedFinding = findings[1]

\* C24: severityConfig has an entry for exactly the four severities, with
\* unique priorities in 1..4, LOW = 1 < MEDIUM = 2 < HIGH = 3 < CRITICAL = 4,
\* in every state the program reaches; the cards rendered in a state are one
\* per entry.
C24_SeverityConfig ==
  /\ DOMAIN severityConfig = {"CRITICAL", "HIGH", "MEDIUM", "LOW"}
  /\ severityConfig["LOW"].priority = 1
  /\ severityConfig["MEDIUM"].priority = 2
  /\ severityConfig["HIGH"].priority = 3
  /\ severityConfig["CRITICAL"].priority = 4
  /\ \A a, b \in DOMAIN severityConfig :
       severityConfig[a].priority = severityConfig[b].priority => a = b
  /\ \A a \in DOMAIN severityConfig : severityConfig[a].priority \in 1..4
  /\ {SummaryCards(findings)[i].severity : i \in DOMAIN SummaryCards(findings)}
       = DOMAIN severityConfig
  /\ Len(SummaryCards(findings)) = Cardinality(DOMAIN severityConfig)

C24_Witness ==
  /\ severityFilter = <<"LOW">>
  /\ selectedFinding # null
  /\ activeTab # "all"
  /\ severityConfig[selectedFinding.severity].priority = 4

\* the state of FindingsTable in which nothing is deselected or selected
DefaultSelection ==
  /\ severityFilter = <<"CRITICAL", "HIGH", "MEDIUM", "LOW">>
  /\ activeTab = "all"
  /\ selectedFinding = null

\* C25: FindingsTable starts with all four severities selected, the 'all'
\* tab active and no finding selected; in that state the rows are exactly
\* the findings of the input with one of the four known severities, in
\* input order, one row (and one View Details button) per finding.
C25_InitialStateShowsAll ==
  /\ DefaultSelection
  /\ [](DefaultSelection =>
          /\ FindingsTableView.rows =
               SelectSeq(findings, LAMBDA f : f.severity \in KnownSeverities)
          /\ ~FindingsTableView.dialogOpen
          /\ \A index \in 1..Len(FindingsTableView.rows) : ENABLED ViewDetails(index))

C25_Witness ==
  /\ DefaultSelection
  /\ clickParity = [s \in DOMAIN severityConfig |-> 0]
  /\ Len(findings) = 2
  /\ findings[1].tool # findings[2].tool
  /\ Len(FindingsTableView.rows) = 2

\* C26: after any sequence of severity toggles the selection holds only
\* known severities and no duplicates; so every row of the filtered view,
\* and the finding of the details view, has a severity with an entry in
\* severityConfig, and rendering them never reads a missing entry.
C26_SelectionWellFormed ==
  /\ Range(severityFilter) \subseteq DOMAIN severityConfig
  /\ \A i, j \in 1..Len(severityFilter) : severityFilter[i] = severityFilter[j] => i = j
  /\ \A i \in 1..Len(filteredFindings) : filteredFindings[i].severity \in DOMAIN severityConfig
  /\ selectedFinding # null =>
       /\ selectedFinding.severity \in DOMAIN severityConfig
       /\ ~DetailsView.threw

C26_Witness ==
  /\ \E i \in 1..Len(findings) : findings[i].severity \notin DOMAIN severityConfig
  /\ severityFilter = <<"HIGH", "MEDIUM", "LOW", "CRITICAL">>
  /\ clickParity["CRITICAL"] = 0
  /\ selectedFinding # null
  /\ Len(filteredFindings) = 1

C28_LoadingEnds ==
  /\ loading = TRUE /\ data = null /\ AppView.branch = "loading"
  /\ <>(loading = FALSE)
  /\ [][loading = FALSE => loading' = FALSE]_vars
  /\ [](mounted => (loading = FALSE /\ AppView.branch # "loading"))

C28_Witness ==
  /\ mounted
  /\ loading = FALSE
  /\ consoleErrors # <<>>
  /\ data = null
  /\ AppView.branch = "no-data"

RECURSIVE SumOfCounts(_, _)
SumOfCounts(cards, n) ==
  IF n = 0 THEN 0 ELSE cards[n].count + SumOfCounts(cards, n - 1)

\* C29: for every findings list, also with unrecognized severities, the
\* number of rows of the table in the default selection (all four
\* severities, tab 'all') equals the sum of the four card counts; both are
\* at most the header total findings.length, and equal to it exactly when
\* every finding has a recognized severity.
C29_RowsEqualSumOfCounts ==
  LET defaultRows == filterFindings(findings, "all", <<"CRITICAL", "HIGH", "MEDIUM", "LOW">>)
      cards == SummaryCards(findings)
      sum == SumOfCounts(cards, Len(cards))
  IN /\ Len(defaultRows) = sum
     /\ DefaultSelection => Len(FindingsTableView.rows) = sum
     /\ sum <= Len(findings)
     /\ (sum = Len(findings)) =
          (\A i \in 1..Len(findings) : findings[i].severity \in KnownSeverities)

C29_Witness ==
  /\ DefaultSelection
  /\ Len(findings) = 2
  /\ findings[1].severity = "UNKNOWN"
  /\ findings[2].severity = "HIGH"
  /\ Len(FindingsTableView.rows) = 1
  /\ SummaryCards(findings)[2].count = 1

\* the positions of the findings shown under a tab value, for the current
\* severity selection
PositionsShown(tab) ==
  {i \in 1..Len(findings) :
     matchesTab(findings[i], tab) /\ matchesSeverity(findings[i], severityFilter)}

\* the first part of C30 alone: activeTab is 'all' or a tool of the findings
ActiveTabIsAllOrTool == activeTab \in {"all"} \cup Range(tools)

\* C30: after any sequence of tab clicks and severity toggles, activeTab is
\* 'all' or a tool that occurs in the findings list, and for the current
\* severity selection the views of the tool tabs are pairwise disjoint and
\* together hold exactly the findings of the 'all' view.
C30_ToolTabsPartitionAllView ==
  /\ ActiveTabIsAllOrTool
  /\ \A i, j \in 1..Len(tools) :
       i # j => PositionsShown(tools[i]) \cap PositionsShown(tools[j]) = {}
  /\ UNION {PositionsShown(tools[i]) : i \in 1..Len(tools)}
       = {i \in 1..Len(findings) : matchesSeverity(findings[i], severityFilter)}

====
